---------------------------- MODULE Spec2Model ----------------------------
(***************************************************************************)
(* SmartWatts report handler (smartwatts/handler.py) and its wiring        *)
(* (smartwatts/__main__.py).                                               *)
(*                                                                         *)
(* Representation.                                                         *)
(*  - A Python dict whose iteration order is observed (the OrderedDict     *)
(*    `ticks`, a bucket of reports, the cpu map of an events group) is a   *)
(*    sequence of entries [k |-> key, v |-> value] in insertion order.     *)
(*  - A dict of events is a function from event names to numbers.  An      *)
(*    event name of the pcu and core groups is the sequence of its         *)
(*    '_'-separated words, so that startswith('time_') can be computed.    *)
(*  - A raw RAPL counter is the integer m * 2^e, kept as [m |-> m,         *)
(*    e |-> e]: the counters of the model are whole joules (e = 32).       *)
(*  - A power (a Python float) is an exact fraction [num |-> n,            *)
(*    den |-> d] in lowest terms with d > 0: the share of a target is a    *)
(*    quotient that whole watts cannot hold.                               *)
(*  - smartwatts/formula.py is not part of the sources at hand: the power  *)
(*    model (get_power_model, compute_power_estimation, store, hash) is    *)
(*    written from the specification's sections 4.3 to 4.5.                *)
(***************************************************************************)
EXTENDS Integers, Sequences, FiniteSets, TLC

VARIABLES
    ticks,           \* ReportHandler.ticks: OrderedDict timestamp -> bucket
    formula,         \* ReportHandler.formula: frequency-layer key -> power model
    sent,            \* the power reports given to pusher.send_data, in order
    outcome,         \* how the last call of handle ended
    running,         \* FALSE once term_handler has run
    real_time_mode,  \* configuration 'real-time-mode'
    min_samples,     \* configuration 'learn-min-samples-required'
    sampling_interval,     \* configuration 'sensor-report-sampling-interval' (ms)
    disable_cpu_formula,   \* configuration 'disable-cpu-formula'
    disable_dram_formula,  \* configuration 'disable-dram-formula'
    scope,           \* ReportHandler.scope: the handler followed is the one of this scope
    state,           \* the actor state given to, and returned by, handle
    seen,            \* history: the timestamps received so far
    released,        \* history: the timestamps popped from ticks, in order
    created,         \* history: the timestamps for which a bucket was created, in order
    late,            \* history: number of reports received with a timestamp older
                     \* than one received before
    last_pcu,        \* history: the pcu events group decoded for the bucket
                     \* released last
    idle             \* the handler of the other scope, which is not running: its
                     \* ticks, formula and history

\* the configuration: no operation of a handler changes it
config == <<real_time_mode, min_samples, sampling_interval,
            disable_cpu_formula, disable_dram_formula, scope>>

\* what a step of the running handler leaves as it is, besides its own state
apart == <<idle>>

vars == <<ticks, formula, sent, outcome, running, config, state,
          seen, released, created, late, last_pcu, apart>>

----------------------------------------------------------------------------
(* Bounds of the model *)

\* timestamps are 1..MaxTs
MaxTs == 7
\* reports that may arrive with a timestamp older than the newest one seen
MaxLate == 1
\* number of ticks of a timeline (SpecTimeline)
MaxTicks == 8

MaxTrainTicks == 9

MaxMalformedTicks == 8

MaxConfigTicks == 8

\* number of ticks of SpecPredict; how many ticks vary their content (SpecPredict,
\* SpecRewrite)
MaxPredictTicks == 8
MaxVariedTicks == 3

\* SpecDelay: the greatest timestamp; SpecDelay and SpecRewrite: how many
\* reports come for a timestamp older than the newest one
MaxDelayTs == 7
MaxDelayed == 2

\* SpecRewrite: the greatest timestamp
MaxRewriteTs == 6

\* number of ticks of SpecFeatures
MaxFeatureTicks == 9

\* number of ticks of SpecCpus
MaxCpuTicks == 7

\* number of ticks of SpecTwoHandlers
MaxSharedTicks == 8

----------------------------------------------------------------------------
(* Ordered dicts *)

Keys(d) == {d[i].k : i \in DOMAIN d}

Has(d, key) == key \in Keys(d)

IndexOf(d, key) == CHOOSE i \in DOMAIN d : d[i].k = key

Get(d, key) == d[IndexOf(d, key)].v

\* d[key] = value: a new key goes last, a known key keeps its place
Put(d, key, value) ==
    IF Has(d, key)
    THEN [d EXCEPT ![IndexOf(d, key)] = [k |-> key, v |-> value]]
    ELSE Append(d, [k |-> key, v |-> value])

\* d.pop(key), the dict that is left
Without(d, key) == SelectSeq(d, LAMBDA en : en.k # key)

RECURSIVE SumOver(_, _)
SumOver(f, S) ==
    IF S = {} THEN 0
    ELSE LET x == CHOOSE y \in S : TRUE
         IN f[x] + SumOver(f, S \ {x})

\* sum of the values of an events dict
Total(events) == SumOver(events, DOMAIN events)

Abs(x) == IF x < 0 THEN -x ELSE x

RECURSIVE GCD(_, _)
GCD(a, b) == IF b = 0 THEN a ELSE GCD(b, a % b)

\* the float n / d (d > 0), in lowest terms
Fraction(n, d) == [num |-> n \div GCD(Abs(n), d), den |-> d \div GCD(Abs(n), d)]

\* the float of a whole number
Whole(n) == [num |-> n, den |-> 1]

----------------------------------------------------------------------------
(* Handler parameters, as run_smartwatts builds the formula of a scope *)

Sensor == "sensor"
Socket == "0"
CpuRaplEvent == "RAPL_ENERGY_PKG"
DramRaplEvent == "RAPL_ENERGY_DRAM"
CpuErrorThreshold == 5
DramErrorThreshold == 2

\* the rapl_event and error_threshold the formula factory of the scope gives
RaplEvent == IF scope = "dram" THEN DramRaplEvent ELSE CpuRaplEvent
ErrorThreshold == IF scope = "dram" THEN DramErrorThreshold ELSE CpuErrorThreshold
LookAhead == 5
RaplShift == 32

(* Event names of the reports of the model *)
EvUnhalted == <<"CPU", "CLK", "UNHALTED">>
EvRef == <<"CPU", "CLK", "REF">>
EvTimeEnabled == <<"time", "enabled">>
EvTimeRunning == <<"time", "running">>
EvPcu == <<"UNC", "P", "POWER">>

\* event_name.startswith('time_')
StartsWithTime(name) == Len(name) > 1 /\ name[1] = "time"

\* {k: v for k, v in cpu_events.items() if not k.startswith('time_')}
NoTime(cpu_events) ==
    [n \in {m \in DOMAIN cpu_events : ~StartsWithTime(m)} |-> cpu_events[n]]

\* math.ldexp(x, n) = x * 2^n, for a counter x = m * 2^e
ldexp(x, n) ==
    IF x.e + n >= 0 THEN x.m * 2^(x.e + n) ELSE x.m \div 2^(-(x.e + n))

----------------------------------------------------------------------------
(* Decoding of one HWPC report *)

\* the lookups of _gen_rapl_events_group succeed
RaplOk(system_report) ==
    /\ "rapl" \in DOMAIN system_report.groups
    /\ Socket \in DOMAIN system_report.groups["rapl"]
    /\ system_report.groups["rapl"][Socket] # <<>>
    /\ RaplEvent \in DOMAIN system_report.groups["rapl"][Socket][1].v

gen_rapl_events_group(system_report) ==
    LET cpu_events == system_report.groups["rapl"][Socket][1].v
        energy == ldexp(cpu_events[RaplEvent], -RaplShift)
    IN [n \in {RaplEvent} |-> energy]

\* the lookups of _gen_pcu_events_group succeed
PcuOk(system_report) ==
    /\ "pcu" \in DOMAIN system_report.groups
    /\ Socket \in DOMAIN system_report.groups["pcu"]
    /\ system_report.groups["pcu"][Socket] # <<>>

\* the place of a cpu id in the lexicographic order of the cpu ids
CpuRank(cpu_id) ==
    CASE cpu_id = "0" -> 0
      [] cpu_id = "1" -> 1
      [] OTHER -> 2

\* the index, in a cpu map, of the entry of the smallest cpu id
SmallestCpu(cpus) ==
    CHOOSE i \in DOMAIN cpus :
        \A j \in DOMAIN cpus : CpuRank(cpus[i].k) <= CpuRank(cpus[j].k)

\* the pcu events are those of the cpu of the smallest cpu id
gen_pcu_events_group_of_smallest_cpu(system_report) ==
    NoTime(system_report.groups["pcu"][Socket]
               [SmallestCpu(system_report.groups["pcu"][Socket])].v)

\* next(iter(...values())): the cpu whose entry comes first in the dict
gen_pcu_events_group(system_report) ==
    NoTime(system_report.groups["pcu"][Socket][1].v)

\* the lookups of _gen_core_events_group succeed
CoreOk(report) ==
    /\ "core" \in DOMAIN report.groups
    /\ Socket \in DOMAIN report.groups["core"]

\* element-wise sum of two events dicts (defaultdict(int) += ...)
AddEvents(acc, events) ==
    [n \in DOMAIN acc \cup DOMAIN events |->
        (IF n \in DOMAIN acc THEN acc[n] ELSE 0)
        + (IF n \in DOMAIN events THEN events[n] ELSE 0)]

RECURSIVE SumCpus(_)
SumCpus(cpus) ==
    IF cpus = <<>> THEN <<>>
    ELSE AddEvents(NoTime(Head(cpus).v), SumCpus(Tail(cpus)))

\* the events of the first cpu stand for the socket
gen_core_events_group_of_first_cpu(report) ==
    IF report.groups["core"][Socket] = <<>> THEN <<>>
    ELSE NoTime(report.groups["core"][Socket][1].v)

gen_core_events_group(report) == SumCpus(report.groups["core"][Socket])

\* the aggregate is assigned, not added to: it is the events of one target
gen_agg_core_report_of_one_target(targets_report) ==
    IF targets_report = <<>> THEN <<>>
    ELSE gen_core_events_group(targets_report[Len(targets_report)].v)

RECURSIVE gen_agg_core_report_from_running_targets(_)
gen_agg_core_report_from_running_targets(targets_report) ==
    IF targets_report = <<>> THEN <<>>
    ELSE AddEvents(gen_core_events_group(Head(targets_report).v),
                   gen_agg_core_report_from_running_targets(Tail(targets_report)))

\* every report carries the name of the reference event as formula id
gen_power_report_of_event(timestamp, target, formula_id, power) ==
    [timestamp |-> timestamp, sensor |-> Sensor, target |-> target, power |-> power,
     metadata |-> [scope |-> scope, socket |-> Socket, formula |-> RaplEvent]]

gen_power_report(timestamp, target, formula_id, power) ==
    [timestamp |-> timestamp, sensor |-> Sensor, target |-> target, power |-> power,
     metadata |-> [scope |-> scope, socket |-> Socket, formula |-> formula_id]]

----------------------------------------------------------------------------
(* The power-model collection (specification, sections 4.3 and 4.4) *)

BaseClock == 100
FrequencyMin == 4
FrequencyMax == 42
WindowSize == 60
IdleKey == 0

Clamp(x, lo, hi) == IF x < lo THEN lo ELSE IF x > hi THEN hi ELSE x

CounterOf(core, name) == IF name \in DOMAIN core THEN core[name] ELSE 0

\* floor((unhalted_cycles / reference_cycles) * base_clock), clamped; idle when no cycles
FrequencyLayerKey(core) ==
    IF CounterOf(core, EvUnhalted) = 0 \/ CounterOf(core, EvRef) = 0
    THEN IdleKey
    ELSE Clamp((CounterOf(core, EvUnhalted) * BaseClock) \div CounterOf(core, EvRef),
               FrequencyMin, FrequencyMax)

NewModel ==
    [history |-> <<>>, names |-> {}, coef |-> 0, intercept |-> 0,
     hash |-> "uninitialized", fitted |-> FALSE]

\* formula.get_power_model(core): the collection, with the model of the key created if absent
get_power_model(models, core) ==
    IF FrequencyLayerKey(core) \in DOMAIN models
    THEN models
    ELSE (FrequencyLayerKey(core) :> NewModel) @@ models

\* intercept + sum of coefficient * feature over the names the model knows
Predict(model, features) ==
    model.intercept
    + model.coef * SumOver(features, DOMAIN features \cap model.names)

\* append to the bounded history, dropping the oldest sample beyond the window
Record(model, features, label) ==
    LET h == Append(model.history, [x |-> features, y |-> label])
    IN [model EXCEPT !.history = IF Len(h) > WindowSize THEN Tail(h) ELSE h]

RECURSIVE SumSeq(_)
SumSeq(s) == IF s = <<>> THEN 0 ELSE Head(s) + SumSeq(Tail(s))

\* stable digest of (coefficients, intercept)
Digest(coef, intercept) == ToString(<<coef, intercept>>)

\* least squares of the label on the activity (the sum of the features), one
\* coefficient shared by the feature names, over the history
Fit(model, minSamples) ==
    IF Len(model.history) < minSamples THEN model
    ELSE LET h == model.history
             n == Len(h)
             xs == [i \in 1..n |-> Total(h[i].x)]
             ys == [i \in 1..n |-> h[i].y]
             sx == SumSeq(xs)
             sy == SumSeq(ys)
             sxx == SumSeq([i \in 1..n |-> xs[i] * xs[i]])
             sxy == SumSeq([i \in 1..n |-> xs[i] * ys[i]])
             d == n * sxx - sx * sx
             c == IF d = 0 THEN 0 ELSE (n * sxy - sx * sy) \div d
             b == (sy - c * sx) \div n
         IN [model EXCEPT !.names = UNION {DOMAIN h[i].x : i \in 1..n},
                          !.coef = c, !.intercept = b,
                          !.hash = Digest(c, b), !.fitted = TRUE]

\* model.store(rapl, pcu, global_core): record the sample, then fit
Store(model, minSamples, rapl, pcu, global_core) ==
    Fit(Record(model, global_core, rapl[RaplEvent]), minSamples)

\* a negative predicted power is clamped to 0 (section 7, InvariantViolation)
ClampPower(watts) == IF watts < 0 THEN 0 ELSE watts

\* the share of the system estimate the target's features claim
Apportion(system_power, system_core, target_core) ==
    IF target_core = system_core THEN Whole(system_power)
    ELSE IF Total(system_core) = 0 THEN Whole(0)
    ELSE Fraction(system_power * Total(target_core), Total(system_core))

\* the estimation without the clamp of a negative prediction
compute_power_estimation_unclamped(model, minSamples, rapl, pcu, system_core, target_core) ==
    IF ~model.fitted
    THEN [raised |-> TRUE, power |-> Whole(0),
          model |-> Store(model, minSamples, rapl, pcu, system_core)]
    ELSE [raised |-> FALSE, model |-> model,
          power |-> Apportion(Predict(model, system_core), system_core, target_core)]

\* model.compute_power_estimation(rapl, pcu, system_core, target_core): the system
\* estimate weighted by the target's share of the core features.  A model that is
\* not fitted records the sample, fits and raises PowerModelNotInitializedException.
compute_power_estimation(model, minSamples, rapl, pcu, system_core, target_core) ==
    IF ~model.fitted
    THEN [raised |-> TRUE, power |-> Whole(0),
          model |-> Store(model, minSamples, rapl, pcu, system_core)]
    ELSE [raised |-> FALSE, model |-> model,
          power |-> Apportion(ClampPower(Predict(model, system_core)),
                              system_core, target_core)]

----------------------------------------------------------------------------
(* ReportHandler *)

\* the `popped` of a call that popped no bucket
NoTimestamp == 0

\* the exception the decoding of a popped bucket raises, "none" if it raises none
DecodeError(bucket) ==
    IF ~Has(bucket, "all") THEN "KeyError"
    ELSE IF ~RaplOk(Get(bucket, "all")) THEN "KeyError"
    ELSE IF ~PcuOk(Get(bucket, "all")) THEN "KeyError"
    ELSE IF \E i \in DOMAIN bucket : bucket[i].k # "all" /\ ~CoreOk(bucket[i].v)
         THEN "KeyError"
    ELSE "none"

\* the bucket is removed only once it was decoded
PopOldestIfDecodable(tks) ==
    [timestamp |-> Head(tks).k, bucket |-> Head(tks).v,
     rest |-> IF DecodeError(Head(tks).v) = "none" THEN Tail(tks) ELSE tks]

\* popitem(last=True): the newest bucket is taken
PopNewest(tks) ==
    [timestamp |-> tks[Len(tks)].k, bucket |-> tks[Len(tks)].v,
     rest |-> SubSeq(tks, 1, Len(tks) - 1)]

\* the oldest bucket is read and left in the buffer
PeekOldest(tks) ==
    [timestamp |-> Head(tks).k, bucket |-> Head(tks).v, rest |-> tks]

\* timestamp, hwpc_reports = self.ticks.popitem(last=False)
PopOldest(tks) ==
    [timestamp |-> Head(tks).k, bucket |-> Head(tks).v, rest |-> Tail(tks)]

\* the error is compared with >=
ExceedsThresholdOrEqual(rapl_power, system_power) ==
    Abs(rapl_power * system_power.den - system_power.num)
        >= ErrorThreshold * system_power.den

\* fabs(rapl_power - system_power) > self.error_threshold
ExceedsThreshold(rapl_power, system_power) ==
    Abs(rapl_power * system_power.den - system_power.num)
        > ErrorThreshold * system_power.den

\* the Global report is appended before the RAPL report
EmittedReportsGlobalFirst(rapl_report, global_report, target_reports) ==
    <<global_report, rapl_report>> \o target_reports

\* the Global report is not appended
EmittedReportsNoGlobal(rapl_report, global_report, target_reports) ==
    <<rapl_report>> \o target_reports

\* power_reports, in the order of its appends, for a model that estimates
EmittedReports(rapl_report, global_report, target_reports) ==
    <<rapl_report, global_report>> \o target_reports

\* the RAPL report is lost when the model is not initialised
ReportsOnNotInitializedNone(rapl_report) == <<>>

\* power_reports as returned on PowerModelNotInitializedException
ReportsOnNotInitialized(rapl_report) == <<rapl_report>>

RECURSIVE TargetReports(_, _, _, _, _, _, _)
\* the loop of _process_oldest_tick over hwpc_reports.items()
TargetReports(timestamp, model, minSamples, rapl, pcu, global_core, hwpc_reports) ==
    IF hwpc_reports = <<>> THEN <<>>
    ELSE <<gen_power_report(timestamp, Head(hwpc_reports).k, model.hash,
              compute_power_estimation(model, minSamples, rapl, pcu, global_core,
                  gen_core_events_group(Head(hwpc_reports).v)).power)>>
         \o TargetReports(timestamp, model, minSamples, rapl, pcu, global_core,
                          Tail(hwpc_reports))

\* _process_oldest_tick on the handler state (tks, models): the state it leaves,
\* the power reports it returns, the exception it raises and the timestamp it popped
process_oldest_tick(tks, models, minSamples) ==
    LET timestamp == PopOldest(tks).timestamp
        bucket == PopOldest(tks).bucket
        rest == PopOldest(tks).rest
        err == DecodeError(bucket)
    IN  IF err # "none"
        THEN [ticks |-> rest, formula |-> models, reports |-> <<>>, error |-> err,
              popped |-> timestamp]
        ELSE
        LET global_report == Get(bucket, "all")
            hwpc_reports == Without(bucket, "all")
            rapl == gen_rapl_events_group(global_report)
            pcu == gen_pcu_events_group(global_report)
            global_core == gen_agg_core_report_from_running_targets(hwpc_reports)
            models1 == get_power_model(models, global_core)
            key == FrequencyLayerKey(global_core)
            model == models1[key]
            rapl_power == rapl[RaplEvent]
            rapl_report == gen_power_report(timestamp, "rapl", RaplEvent,
                                            Whole(rapl_power))
            system == compute_power_estimation(model, minSamples, rapl, pcu,
                                               global_core, global_core)
            system_power == system.power
        IN  IF system.raised
            THEN [ticks |-> rest,
                  formula |-> [models1 EXCEPT ![key] = system.model],
                  reports |-> ReportsOnNotInitialized(rapl_report),
                  error |-> "none", popped |-> timestamp, pcu |-> pcu]
            ELSE [ticks |-> rest,
                  formula |->
                      IF ExceedsThreshold(rapl_power, system_power)
                      THEN [models1 EXCEPT ![key] = Store(model, minSamples, rapl, pcu, global_core)]
                      ELSE models1,
                  reports |->
                      EmittedReports(rapl_report,
                          gen_power_report(timestamp, "global", model.hash, system_power),
                          TargetReports(timestamp, model, minSamples, rapl, pcu, global_core,
                                        hwpc_reports)),
                  error |-> "none", popped |-> timestamp, pcu |-> pcu]

\* the bucket is assigned a dict that holds the report alone
StoreReportAlone(tks, report) ==
    Put(tks, report.timestamp, Put(<<>>, report.target, report))

\* self.ticks.setdefault(report.timestamp, {}).update({report.target: report})
StoreReport(tks, report) ==
    Put(tks, report.timestamp,
        Put(IF Has(tks, report.timestamp) THEN Get(tks, report.timestamp) ELSE <<>>,
            report.target, report))

\* _process_report releasing as soon as LookAhead buckets are buffered
process_report_eager(tks, models, minSamples, report) ==
    IF Len(StoreReport(tks, report)) >= LookAhead
    THEN process_oldest_tick(StoreReport(tks, report), models, minSamples)
    ELSE [ticks |-> StoreReport(tks, report), formula |-> models,
          reports |-> <<>>, error |-> "none", popped |-> NoTimestamp]

\* _process_report releasing one bucket later
process_report_lazy(tks, models, minSamples, report) ==
    IF Len(StoreReport(tks, report)) > LookAhead + 1
    THEN process_oldest_tick(StoreReport(tks, report), models, minSamples)
    ELSE [ticks |-> StoreReport(tks, report), formula |-> models,
          reports |-> <<>>, error |-> "none", popped |-> NoTimestamp]

\* _process_report looking at the size of the buffer before it stores the report
process_report_check_first(tks, models, minSamples, report) ==
    IF Len(tks) > LookAhead
    THEN process_oldest_tick(StoreReport(tks, report), models, minSamples)
    ELSE [ticks |-> StoreReport(tks, report), formula |-> models,
          reports |-> <<>>, error |-> "none", popped |-> NoTimestamp]

\* _process_report
process_report(tks, models, minSamples, report) ==
    IF Len(StoreReport(tks, report)) > LookAhead
    THEN process_oldest_tick(StoreReport(tks, report), models, minSamples)
    ELSE [ticks |-> StoreReport(tks, report), formula |-> models,
          reports |-> <<>>, error |-> "none", popped |-> NoTimestamp]

----------------------------------------------------------------------------
(* The HWPC reports of the model *)

Joules == {10, 15, 20}

OneCpu(events) == <<[k |-> "0", v |-> events]>>

TwoCpus(events) == <<[k |-> "0", v |-> events], [k |-> "1", v |-> events]>>

CoreEvents(cycles) == (EvUnhalted :> cycles) @@ (EvRef :> 10) @@ (EvTimeEnabled :> 7)

PcuEvents == (EvPcu :> 4) @@ (EvTimeRunning :> 7)

DramJoules == 3

\* the rapl group of a cpu: the package counter reads `joules` joules
RaplEvents(joules) ==
    (CpuRaplEvent :> [m |-> joules, e |-> RaplShift])
    @@ (DramRaplEvent :> [m |-> DramJoules, e |-> RaplShift])

\* the report of the system target, whose RAPL counter reads `joules` joules
SystemReport(ts, joules) ==
    [timestamp |-> ts, sensor |-> Sensor, target |-> "all",
     groups |-> [rapl |-> (Socket :> OneCpu(RaplEvents(joules))),
                 pcu |-> (Socket :> OneCpu(PcuEvents)),
                 core |-> (Socket :> TwoCpus(CoreEvents(5)))]]

\* the report of a running target
TargetReport(ts, target, cycles) ==
    [timestamp |-> ts, sensor |-> Sensor, target |-> target,
     groups |-> [core |-> (Socket :> TwoCpus(CoreEvents(cycles)))]]

Report(ts, target, joules, cycles) ==
    IF target = "all" THEN SystemReport(ts, joules) ELSE TargetReport(ts, target, cycles)

----------------------------------------------------------------------------
(* Actions *)

Max(S) == IF S = {} THEN 0 ELSE CHOOSE x \in S : \A y \in S : y <= x

\* handler.handle(msg, state) for an HWPCReport
Handle(msg) ==
    \E result \in {process_report(ticks, formula, min_samples, msg)} :
        /\ running
        /\ ticks' = result.ticks
        /\ formula' = result.formula
        /\ sent' = IF result.error = "none" THEN sent \o result.reports ELSE sent
        /\ outcome' = result.error
        /\ seen' = seen \cup {msg.timestamp}
        /\ released' = IF result.popped # NoTimestamp
                       THEN Append(released, result.popped)
                       ELSE released
        /\ created' = IF Has(ticks, msg.timestamp) THEN created
                      ELSE Append(created, msg.timestamp)
        /\ late' = IF msg.timestamp < Max(seen) THEN late + 1 ELSE late
        /\ last_pcu' = IF result.popped # NoTimestamp /\ result.error = "none"
                       THEN result.pcu
                       ELSE last_pcu
        /\ state' = state
        /\ UNCHANGED <<running, config, apart>>

\* the message is given a bucket before its type is looked at
HandleUnknownStored ==
    /\ running
    /\ outcome' = "UnknowMessageTypeException"
    /\ ticks' = Put(ticks, NoTimestamp, <<>>)
    /\ UNCHANGED <<formula, sent, running, config, state,
                   seen, released, created, late, last_pcu, apart>>

\* handler.handle(msg, state) for a message that is no HWPCReport
HandleUnknown ==
    /\ running
    /\ outcome' = "UnknowMessageTypeException"
    /\ UNCHANGED <<ticks, formula, sent, running, config, state,
                   seen, released, created, late, last_pcu, apart>>

\* a shutdown that empties the tick buffer
TermDrain ==
    /\ running
    /\ running' = FALSE
    /\ ticks' = <<>>
    /\ UNCHANGED <<formula, sent, outcome, config, state,
                   seen, released, created, late, last_pcu, apart>>

\* term_handler: the actors are joined and the process exits
Term ==
    /\ running
    /\ running' = FALSE
    /\ UNCHANGED <<ticks, formula, sent, outcome, config, state,
                   seen, released, created, late, last_pcu, apart>>

\* the actor state of the formula actor
ActorState == "state"

OtherScope == IF scope = "cpu" THEN "dram" ELSE "cpu"

\* the two handlers have one formula between them
SwitchSharedFormula ==
    /\ running
    /\ scope' = OtherScope
    /\ ticks' = idle.ticks
    /\ formula' = formula
    /\ seen' = idle.seen
    /\ released' = idle.released
    /\ created' = idle.created
    /\ late' = idle.late
    /\ last_pcu' = idle.last_pcu
    /\ idle' = [ticks |-> ticks, formula |-> formula, seen |-> seen,
                released |-> released, created |-> created, late |-> late,
                last_pcu |-> last_pcu]
    /\ UNCHANGED <<sent, outcome, running, state, real_time_mode, min_samples,
                   sampling_interval, disable_cpu_formula, disable_dram_formula>>

\* the handler of the other dispatcher gets the thread: each handler has the
\* ticks and the formula its __init__ made, the pusher is the same
Switch ==
    /\ running
    /\ scope' = OtherScope
    /\ ticks' = idle.ticks
    /\ formula' = idle.formula
    /\ seen' = idle.seen
    /\ released' = idle.released
    /\ created' = idle.created
    /\ late' = idle.late
    /\ last_pcu' = idle.last_pcu
    /\ idle' = [ticks |-> ticks, formula |-> formula, seen |-> seen,
                released |-> released, created |-> created, late |-> late,
                last_pcu |-> last_pcu]
    /\ UNCHANGED <<sent, outcome, running, state, real_time_mode, min_samples,
                   sampling_interval, disable_cpu_formula, disable_dram_formula>>

\* the fields of a handler after ReportHandler.__init__
NewHandler ==
    [ticks |-> <<>>, formula |-> <<>>, seen |-> {}, released |-> <<>>,
     created |-> <<>>, late |-> 0, last_pcu |-> <<>>]

\* the state after ReportHandler.__init__
Constructed ==
    /\ idle = NewHandler
    /\ last_pcu = <<>>
    /\ ticks = <<>>
    /\ formula = <<>>
    /\ sent = <<>>
    /\ outcome = "none"
    /\ running = TRUE
    /\ seen = {}
    /\ released = <<>>
    /\ created = <<>>
    /\ late = 0
    /\ state = ActorState

\* the sampling interval of the sensor, in ms
SamplingDefault == 1000

\* the CPU formula of a run with the default sampling interval and no scope disabled
DefaultRun ==
    /\ scope = "cpu"
    /\ sampling_interval = SamplingDefault
    /\ disable_cpu_formula = FALSE
    /\ disable_dram_formula = FALSE

----------------------------------------------------------------------------
(* Spec: one handler fed a stream of reports of the targets "all" and "a".  The
   reports of the newest timestamp and the first report of the next one come in
   any order.  Out of order come: the "all" report of the timestamp after the
   next one (the skipped timestamp then comes late, before any newer one), and an
   "all" report that is late for a timestamp no longer, or not yet, in the
   buffer; at most MaxLate reports are late. *)

NoHole == seen = 1..Max(seen)

Deliver ==
    \E ts \in 1..MaxTs, target \in {"all", "a"} :
        /\ ts <= Max(seen) + 2
        /\ ts > Max(seen) => NoHole
        /\ ts = Max(seen) + 2 => late < MaxLate /\ target = "all"
        /\ ts < Max(seen) => late < MaxLate /\ target = "all" /\ ~Has(ticks, ts)
        /\ Handle(Report(ts, target, 10, 1))

Init ==
    /\ Constructed
    /\ DefaultRun
    /\ real_time_mode = FALSE
    /\ min_samples = 10

Next == Deliver

Spec == Init /\ [][Next]_vars

----------------------------------------------------------------------------
(* SpecTimeline: the timeline of the acceptance test.  Ticks 1, 2, ... come in
   order, each made of the reports of "all" and of three targets, delivered in
   one of the orders of TickOrders; term_handler may end the run at any point. *)

TickOrders == {<<"all", "a", "b", "c">>, <<"c", "b", "all", "a">>, <<"b", "all", "a", "c">>}

MinSamplesChoices == {2, 10}

IsPrefix(p, s) == Len(p) <= Len(s) /\ \A i \in 1..Len(p) : p[i] = s[i]

\* the newest tick received, and the targets received for it, in order
CurTick == Max(seen)

Delivered ==
    IF CurTick = 0 THEN <<>>
    ELSE [i \in 1..Len(Get(ticks, CurTick)) |-> Get(ticks, CurTick)[i].k]

TimelineDeliver ==
    \E order \in TickOrders :
        IF CurTick > 0 /\ Len(Delivered) < Len(order)
        THEN /\ IsPrefix(Delivered, order)
             /\ Handle(Report(CurTick, order[Len(Delivered) + 1], 10, 1))
        ELSE /\ CurTick < MaxTicks
             /\ Handle(Report(CurTick + 1, order[1], 10, 1))

InitTimeline ==
    /\ Constructed
    /\ DefaultRun
    /\ real_time_mode \in BOOLEAN
    /\ min_samples \in MinSamplesChoices

NextTimeline == TimelineDeliver \/ Term

SpecTimeline == InitTimeline /\ [][NextTimeline]_vars

\* the source still has a report of the timeline to deliver: the enabling
\* condition of TimelineDeliver
FeedPending == CurTick < MaxTicks \/ Len(Delivered) < 4

(* SpecFeed: the same timeline, never interrupted.  The puller keeps delivering
   as long as the source has reports: weak fairness of TimelineDeliver, written
   with its enabling condition FeedPending *)
SpecFeed ==
    /\ InitTimeline
    /\ [][TimelineDeliver]_vars
    /\ ([]<>(~FeedPending) \/ []<><<TimelineDeliver>>_vars)

----------------------------------------------------------------------------
(* SpecTrain: ticks in order, each made of the report of "all", whose RAPL counter
   varies, followed by the report of one target *)

TrainDeliver ==
    IF CurTick > 0 /\ Len(Delivered) < 2
    THEN Handle(Report(CurTick, "a", 10, 1))
    ELSE /\ CurTick < MaxTrainTicks
         /\ \E joules \in Joules : Handle(Report(CurTick + 1, "all", joules, 1))

InitTrain ==
    /\ Constructed
    /\ DefaultRun
    /\ real_time_mode = FALSE
    /\ min_samples = 2

SpecTrain == InitTrain /\ [][TrainDeliver]_vars

----------------------------------------------------------------------------
(* SpecMalformed: ticks in order, each made of the report of "all" followed by the
   report of one target; the report of "all" may lack the rapl group, or the
   reference event in it *)

Shapes == {"whole", "no rapl group", "no reference event"}

\* a report of "all" without the rapl group
SystemReportNoRapl(ts) ==
    [timestamp |-> ts, sensor |-> Sensor, target |-> "all",
     groups |-> [pcu |-> (Socket :> OneCpu(PcuEvents)),
                 core |-> (Socket :> TwoCpus(CoreEvents(5)))]]

\* a report of "all" whose rapl group holds no counter of the reference event
SystemReportNoEvent(ts) ==
    [timestamp |-> ts, sensor |-> Sensor, target |-> "all",
     groups |-> [rapl |-> (Socket :> OneCpu(("RAPL_ENERGY_GPU" :> [m |-> 1, e |-> RaplShift]))),
                 pcu |-> (Socket :> OneCpu(PcuEvents)),
                 core |-> (Socket :> TwoCpus(CoreEvents(5)))]]

ShapedReport(ts, shape) ==
    CASE shape = "no rapl group" -> SystemReportNoRapl(ts)
      [] shape = "no reference event" -> SystemReportNoEvent(ts)
      [] OTHER -> SystemReport(ts, 10)

MalformedDeliver ==
    IF CurTick > 0 /\ Len(Delivered) < 2
    THEN Handle(Report(CurTick, "a", 10, 1))
    ELSE /\ CurTick < MaxMalformedTicks
         /\ \E shape \in Shapes : Handle(ShapedReport(CurTick + 1, shape))

InitMalformed ==
    /\ Constructed
    /\ DefaultRun
    /\ real_time_mode = FALSE
    /\ min_samples = 2

SpecMalformed == InitMalformed /\ [][MalformedDeliver]_vars

----------------------------------------------------------------------------
(* SpecConfig: a run of run_smartwatts under each configuration.  The formula
   followed is any of those the dispatchers of the run feed; the ticks come in
   order, each made of the report of "all" followed by the report of one target;
   a message that is no HWPC report may come at any point. *)

\* the scopes whose dispatcher run_smartwatts creates and feeds
Dispatchers == {"cpu", "dram"}

SamplingIntervals == {SamplingDefault, 2 * SamplingDefault}

ConfigDeliver ==
    IF CurTick > 0 /\ Len(Delivered) < 2
    THEN Handle(Report(CurTick, "a", 10, 1))
    ELSE /\ CurTick < MaxConfigTicks
         /\ Handle(Report(CurTick + 1, "all", 10, 1))

InitConfig ==
    /\ Constructed
    /\ scope \in Dispatchers
    /\ sampling_interval \in SamplingIntervals
    /\ disable_cpu_formula \in BOOLEAN
    /\ disable_dram_formula \in BOOLEAN
    /\ real_time_mode = FALSE
    /\ min_samples = 2

NextConfig == ConfigDeliver \/ HandleUnknown

SpecConfig == InitConfig /\ [][NextConfig]_vars

----------------------------------------------------------------------------
(* SpecPredict: ticks in order, each made of the reports of the targets "a" and
   "b" followed by the report of "all", whose core events are, cpu by cpu, the
   sum of those of the two targets: the targets partition the core events of
   "all".  In the first MaxVariedTicks ticks the RAPL counter and the activity of
   "a" vary, so that the fitted model may have a negative slope and the targets
   have unequal shares.  The handler is the one of the CPU or of the DRAM
   dispatcher. *)

Activity == {5, 6, 9}

PredictTargets == <<"a", "b", "all">>

RECURSIVE SumReports(_, _, _)
\* the sum of the event `name` of the cpu at index i over the reports of a bucket
SumReports(bucket, i, name) ==
    IF bucket = <<>> THEN 0
    ELSE Head(bucket).v.groups["core"][Socket][i].v[name]
         + SumReports(Tail(bucket), i, name)

\* the report of the system target for a tick whose target reports are in `bucket`
PartitionedSystemReport(ts, joules, bucket) ==
    LET cpus == bucket[1].v.groups["core"][Socket]
    IN [timestamp |-> ts, sensor |-> Sensor, target |-> "all",
        groups |-> [rapl |-> (Socket :> OneCpu(RaplEvents(joules))),
                    pcu |-> (Socket :> OneCpu(PcuEvents)),
                    core |-> (Socket :>
                        [i \in DOMAIN cpus |->
                            [k |-> cpus[i].k,
                             v |-> [name \in DOMAIN cpus[i].v |->
                                       SumReports(bucket, i, name)]]])]]

PredictDeliver ==
    IF CurTick > 0 /\ Len(Delivered) < Len(PredictTargets)
    THEN IF PredictTargets[Len(Delivered) + 1] = "all"
         THEN \E joules \in IF CurTick <= MaxVariedTicks THEN Joules ELSE {10} :
                 Handle(PartitionedSystemReport(CurTick, joules, Get(ticks, CurTick)))
         ELSE Handle(Report(CurTick, PredictTargets[Len(Delivered) + 1], 10, 5))
    ELSE /\ CurTick < MaxPredictTicks
         /\ \E cycles \in IF CurTick < MaxVariedTicks THEN Activity ELSE {5} :
                Handle(Report(CurTick + 1, PredictTargets[1], 10, cycles))

InitPredict ==
    /\ Constructed
    /\ scope \in Dispatchers
    /\ sampling_interval = SamplingDefault
    /\ disable_cpu_formula = FALSE
    /\ disable_dram_formula = FALSE
    /\ real_time_mode = FALSE
    /\ min_samples = 2

SpecPredict == InitPredict /\ [][PredictDeliver]_vars

----------------------------------------------------------------------------
(* SpecDelay: a stream whose reports are delayed.  The first report of a
   timestamp is its "all" report; it comes for the next timestamp or, skipping
   one, for the timestamp after it.  A report of an older timestamp, of either
   target, comes at any later time, also after the bucket of its timestamp was
   released; at most MaxDelayed reports come for a timestamp older than the
   newest one. *)

DelayDeliver ==
    \E ts \in 1..MaxDelayTs, target \in {"all", "a"} :
        /\ ts <= Max(seen) + 2
        /\ ts > Max(seen) => NoHole /\ target = "all"
        /\ ts < Max(seen) => late < MaxDelayed
        /\ Handle(Report(ts, target, 10, 1))

InitDelay ==
    /\ Constructed
    /\ DefaultRun
    /\ real_time_mode = FALSE
    /\ min_samples = 10

SpecDelay == InitDelay /\ [][DelayDeliver]_vars

----------------------------------------------------------------------------
(* SpecRewrite: a source that repeats itself.  A new timestamp starts with its
   "all" report; a report of either target comes for any timestamp that has a
   bucket in the buffer, also when the bucket holds a report of that target
   already.  The counters of a repeated report of the first MaxVariedTicks
   timestamps read one of Amounts, the others read 10.  At most MaxDelayed reports come for
   a timestamp older than the newest one. *)

Amounts == {10, 20}

RewriteDeliver ==
    \E ts \in 1..MaxRewriteTs, target \in {"all", "a"}, amount \in Amounts :
        /\ Has(ticks, ts) \/ ts = Max(seen) + 1
        /\ ~Has(ticks, ts) => target = "all"
        /\ (~Has(ticks, ts) \/ ts > MaxVariedTicks) => amount = 10
        /\ ts < Max(seen) => late < MaxDelayed
        /\ Handle(Report(ts, target, amount, amount))

InitRewrite ==
    /\ Constructed
    /\ DefaultRun
    /\ real_time_mode = FALSE
    /\ min_samples = 10

SpecRewrite == InitRewrite /\ [][RewriteDeliver]_vars

----------------------------------------------------------------------------
(* SpecFeatures: ticks in order.  A tick starts with its "all" report; each of the
   first MaxVariedTicks ticks then gets the reports of none, one or both of the
   targets "a" and "b", in any order, the activity of "a" being one of
   FeatureCycles; the later ticks have the "all" report alone. *)

FeatureCycles == {1, 5}

FeatureDeliver ==
    \/ /\ CurTick < MaxFeatureTicks
       /\ Handle(Report(CurTick + 1, "all", 10, 1))
    \/ \E target \in {"a", "b"}, cycles \in FeatureCycles :
          /\ CurTick > 0
          /\ CurTick <= MaxVariedTicks
          /\ ~Has(Get(ticks, CurTick), target)
          /\ target = "b" => cycles = 1
          /\ Handle(Report(CurTick, target, 10, cycles))

InitFeatures ==
    /\ Constructed
    /\ DefaultRun
    /\ real_time_mode = FALSE
    /\ min_samples = 2

SpecFeatures == InitFeatures /\ [][FeatureDeliver]_vars

----------------------------------------------------------------------------
(* SpecCpus: ticks in order, each made of the report of "all" followed by the
   report of one target.  The pcu group of "all" holds two cpus, whose counters
   differ, in one of the two orders of CpuOrders. *)

CpuOrders == {<<"0", "1">>, <<"1", "0">>}

\* the pcu events of a cpu: the counter reads 4 on cpu "0" and 6 on cpu "1"
PcuEventsOf(cpu_id) ==
    (EvPcu :> (IF cpu_id = "0" THEN 4 ELSE 6)) @@ (EvTimeRunning :> 7)

\* the report of the system target whose pcu group lists the cpus in `order`
SystemReportOfCpus(ts, order) ==
    [timestamp |-> ts, sensor |-> Sensor, target |-> "all",
     groups |-> [rapl |-> (Socket :> OneCpu(RaplEvents(10))),
                 pcu |-> (Socket :>
                     [i \in DOMAIN order |-> [k |-> order[i], v |-> PcuEventsOf(order[i])]]),
                 core |-> (Socket :> TwoCpus(CoreEvents(5)))]]

CpusDeliver ==
    IF CurTick > 0 /\ Len(Delivered) < 2
    THEN Handle(Report(CurTick, "a", 10, 1))
    ELSE /\ CurTick < MaxCpuTicks
         /\ \E order \in CpuOrders : Handle(SystemReportOfCpus(CurTick + 1, order))

InitCpus ==
    /\ Constructed
    /\ DefaultRun
    /\ real_time_mode = FALSE
    /\ min_samples = 10

SpecCpus == InitCpus /\ [][CpusDeliver]_vars

----------------------------------------------------------------------------
(* SpecTwoHandlers: the run of run_smartwatts, whose filter gives every report
   to the CPU and to the DRAM dispatcher.  The two handlers take the same
   stream, each at its own pace, and send to the same pusher; the thread goes
   from one to the other at any point.  A tick of the stream is the report of
   "all", whose package counter alternates, followed by the report of one
   target. *)

\* the n-th report of the stream
StreamAt(n) ==
    Report((n + 1) \div 2, IF n % 2 = 1 THEN "all" ELSE "a",
           IF ((n + 1) \div 2) % 2 = 1 THEN 10 ELSE 20, 1)

\* how many reports of the stream the running handler has taken
Consumed == IF CurTick = 0 THEN 0 ELSE 2 * (CurTick - 1) + Len(Delivered)

SharedDeliver ==
    /\ Consumed < 2 * MaxSharedTicks
    /\ Handle(StreamAt(Consumed + 1))

InitTwoHandlers ==
    /\ Constructed
    /\ scope \in Dispatchers
    /\ sampling_interval = SamplingDefault
    /\ disable_cpu_formula = FALSE
    /\ disable_dram_formula = FALSE
    /\ real_time_mode = FALSE
    /\ min_samples = 2

NextTwoHandlers == SharedDeliver \/ Switch

SpecTwoHandlers == InitTwoHandlers /\ [][NextTwoHandlers]_vars

----------------------------------------------------------------------------
(* Claims *)

StrictlyIncreasing(s) == \A i \in 1..(Len(s) - 1) : s[i] < s[i + 1]

NonDecreasing(s) == \A i \in 1..(Len(s) - 1) : s[i] <= s[i + 1]

SentTimestamps == [i \in DOMAIN sent |-> sent[i].timestamp]

NoModelFitted == \A key \in DOMAIN formula : ~formula[key].fitted

\* the timeline received so far is made of whole ticks
TimelineComplete == CurTick > 0 /\ \E order \in TickOrders : Len(Delivered) = Len(order)

\* C1 (warm-up): as long as fewer than LookAhead + 1 distinct timestamps were
\* received, in whatever number and order, nothing was sent to the pusher
C1_WarmUp == Cardinality(seen) < LookAhead + 1 => sent = <<>>

\* LookAhead timestamps received, one of them late, two reports for one of them
C1_Witness ==
    /\ Cardinality(seen) = LookAhead
    /\ late > 0
    /\ \E i \in DOMAIN ticks : Len(ticks[i].v) > 1
    /\ sent = <<>>

\* C2: after N >= 5 whole ticks delivered in order, no model being fitted, exactly
\* N - 5 power reports were sent, the RAPL reports of ticks 1 .. N - 5 in order
C2_TimelineCount ==
    (TimelineComplete /\ CurTick >= LookAhead /\ NoModelFitted) =>
        /\ Len(sent) = CurTick - LookAhead
        /\ \A i \in DOMAIN sent :
            sent[i].target = "rapl" /\ sent[i].timestamp = i /\ sent[i].sensor = Sensor

\* eight whole ticks received and three RAPL reports sent, no model fitted
C2_Witness ==
    /\ TimelineComplete
    /\ CurTick = LookAhead + 3
    /\ NoModelFitted
    /\ Len(sent) = 3

\* the look-ahead of the real-time mode
RealTimeLookAhead == 2

\* C3: in real-time mode N whole ticks yield N - 2 power reports (no model being
\* fitted), and N - 5 otherwise
C3_RealTimeCount ==
    (TimelineComplete /\ NoModelFitted) =>
        IF real_time_mode
        THEN CurTick >= RealTimeLookAhead => Len(sent) = CurTick - RealTimeLookAhead
        ELSE CurTick >= LookAhead => Len(sent) = CurTick - LookAhead

\* C4 as stated: whatever the stream, the released timestamps are strictly
\* increasing and the power reports are sent in non-decreasing timestamp order
C4_ReleaseOrderAnyStream ==
    StrictlyIncreasing(released) /\ NonDecreasing(SentTimestamps)

\* C4, amended: buckets are released in the order of their creation; when no
\* report came late the released timestamps are strictly increasing and the
\* power reports are sent in non-decreasing timestamp order
C4_ReleaseOrder ==
    /\ IsPrefix(released, created)
    /\ late = 0 => StrictlyIncreasing(released) /\ NonDecreasing(SentTimestamps)

\* two buckets released and their reports sent, no report having come late
C4_Witness == late = 0 /\ Len(released) >= 2 /\ Len(sent) >= 2

\* the power reports sent by the step
NewReports == SubSeq(sent', Len(sent) + 1, Len(sent'))

\* the step released a bucket: the oldest one of the buffer
Releases == released' # released

OldestBucket == Head(ticks).v

TargetsIn(bucket) == [i \in 1..Len(Without(bucket, "all")) |-> Without(bucket, "all")[i].k]

\* target ids in lexicographic order, after the two reports of the system
Rank(target) ==
    CASE target = "rapl" -> 0
      [] target = "global" -> 1
      [] target = "a" -> 2
      [] target = "b" -> 3
      [] target = "c" -> 4
      [] OTHER -> 5

\* C5 as stated: the reports of one bucket are sent RAPL first, then global, then
\* the targets sorted by target id
C5_TargetsSorted ==
    \A i \in 1..(Len(sent) - 1) :
        sent[i].timestamp = sent[i + 1].timestamp =>
            Rank(sent[i].target) < Rank(sent[i + 1].target)

\* C5, amended: the reports of a released bucket are sent RAPL first, then global,
\* then the targets in the order in which each target was first received for the
\* bucket
C5_EmissionOrder ==
    [][(Releases /\ Len(NewReports) > 0) =>
          /\ NewReports[1].target = "rapl"
          /\ Len(NewReports) > 1 =>
                /\ NewReports[2].target = "global"
                /\ [i \in 1..(Len(NewReports) - 2) |-> NewReports[i + 2].target]
                       = TargetsIn(OldestBucket)]_vars

\* the targets of one bucket were reported in an order that is not sorted
C5_Witness ==
    \E i \in DOMAIN sent : \E j \in DOMAIN sent :
        /\ i < j
        /\ sent[i].timestamp = sent[j].timestamp
        /\ sent[i].target = "c"
        /\ sent[j].target = "a"

\* tick t was received with its "all" report (in a timeline)
ReceivedAll(t) ==
    t < CurTick \/ (t = CurTick /\ \E i \in DOMAIN Delivered : Delivered[i] = "all")

HasRaplReport(t) ==
    \E i \in DOMAIN sent : sent[i].target = "rapl" /\ sent[i].timestamp = t

Min(a, b) == IF a < b THEN a ELSE b

\* C6 as stated: once the source has closed, the tick buffer is drained and every
\* tick received with an "all" report has its RAPL report
C6_DrainOnShutdown ==
    ~running =>
        /\ ticks = <<>>
        /\ \A t \in seen : ReceivedAll(t) => HasRaplReport(t)

\* C6, amended: on shutdown nothing is released; the buckets still buffered (the
\* min(N, 5) newest ticks) stay in the buffer and no power report is sent for them
C6_NoDrain ==
    [][~running' =>
          /\ sent' = sent
          /\ released' = released
          /\ ticks' = ticks
          /\ Len(ticks') = Min(CurTick', LookAhead)
          /\ \A i \in DOMAIN ticks' : \A j \in DOMAIN sent' :
                ~(sent'[j].target = "rapl" /\ sent'[j].timestamp = ticks'[i].k)]_vars

\* the run was ended with five whole ticks in the buffer, none of them reported
C6_Witness ==
    /\ ~running
    /\ TimelineComplete
    /\ Len(ticks) = LookAhead
    /\ \A i \in DOMAIN ticks : Has(ticks[i].v, "all") /\ ~HasRaplReport(ticks[i].k)
    /\ Len(sent) > 0

\* the cpu events of the socket's cpus in the core group of the targets of a bucket
TargetCpuEvents(bucket) ==
    {<<i, j>> \in (DOMAIN bucket) \X (1..8) :
        /\ bucket[i].k # "all"
        /\ j \in DOMAIN bucket[i].v.groups["core"][Socket]}

EventsAt(bucket, p) == bucket[p[1]].v.groups["core"][Socket][p[2]].v

RECURSIVE SumEvent(_, _, _)
\* the sum of event n over the cpus S of the targets of a bucket
SumEvent(bucket, S, n) ==
    IF S = {} THEN 0
    ELSE LET p == CHOOSE q \in S : TRUE
         IN (IF n \in DOMAIN EventsAt(bucket, p) THEN EventsAt(bucket, p)[n] ELSE 0)
            + SumEvent(bucket, S \ {p}, n)

\* the feature vector of a bucket: per event that is no time_ event, the sum over
\* the targets other than "all" and over the cpus of the socket
FeaturesOf(bucket) ==
    LET names == {n \in UNION {DOMAIN EventsAt(bucket, p) : p \in TargetCpuEvents(bucket)} :
                      ~StartsWithTime(n)}
    IN [n \in names |-> SumEvent(bucket, TargetCpuEvents(bucket), n)]

IsFitted(models, key) == key \in DOMAIN models /\ models[key].fitted

HistoryOf(models, key) == IF key \in DOMAIN models THEN models[key].history ELSE <<>>

\* the key of the model selected for a bucket
KeyOf(bucket) == FrequencyLayerKey(FeaturesOf(bucket))

SomeModelFitted == \E key \in DOMAIN formula : formula[key].fitted

\* every bucket released once the model is fitted has its global report, whose
\* power is within the error threshold of the RAPL power
GlobalAfterFit ==
    \A i \in DOMAIN sent :
        (sent[i].target = "rapl" /\ sent[i].timestamp > min_samples) =>
            \E j \in DOMAIN sent :
                /\ sent[j].target = "global"
                /\ sent[j].timestamp = sent[i].timestamp
                /\ Abs(sent[j].power.num - sent[i].power.num) <= ErrorThreshold

C9_Threshold ==
    [][(Releases /\ DecodeError(OldestBucket) = "none"
            /\ IsFitted(formula, KeyOf(OldestBucket))) =>
          /\ Len(NewReports) >= 2
          /\ NewReports[1].target = "rapl"
          /\ NewReports[2].target = "global"
          /\ IF Abs(NewReports[1].power.num - NewReports[2].power.num) > ErrorThreshold
             THEN /\ formula'[KeyOf(OldestBucket)].history =
                        Append(formula[KeyOf(OldestBucket)].history,
                               [x |-> FeaturesOf(OldestBucket), y |-> NewReports[1].power.num])
                  /\ \A key \in DOMAIN formula :
                        key # KeyOf(OldestBucket) => formula'[key] = formula[key]
             ELSE formula' = formula]_vars

\* a fitted model recorded a sample, and an estimate at exactly the threshold from
\* the RAPL power was sent
C9_Witness ==
    /\ \E key \in DOMAIN formula :
          formula[key].fitted /\ Len(formula[key].history) > min_samples
    /\ \E i \in DOMAIN sent : \E j \in DOMAIN sent :
          /\ sent[i].target = "rapl"
          /\ sent[j].target = "global"
          /\ sent[j].timestamp = sent[i].timestamp
          /\ Abs(sent[j].power.num - sent[i].power.num) = ErrorThreshold

\* the effects of releasing a bucket that has no "all" report, but for the outcome:
\* nothing is sent, no model changes, the bucket is gone and the buffer holds the
\* other buckets, in order, with the report just received
DropsIncompleteBucket ==
    /\ sent' = sent
    /\ formula' = formula
    /\ ~Has(ticks', Head(ticks).k)
    /\ Len(ticks') = LookAhead
    /\ \A i \in 1..(Len(ticks) - 1) : ticks'[i] = ticks[i + 1]
    /\ running'

\* C10 as stated: when the released bucket has no "all" report the release fails
\* with an IncompleteTick outcome, nothing is sent, no model changes, the bucket is
\* removed and the later reports are processed as if it had never existed
C10_IncompleteTickOutcome ==
    [][(Releases /\ ~Has(OldestBucket, "all")) =>
          outcome' = "IncompleteTick" /\ DropsIncompleteBucket]_vars

\* C10, amended: when the released bucket has no "all" report, handle raises a
\* KeyError (there is no IncompleteTick outcome and handle does not catch it);
\* nothing is sent, no model changes, the bucket is removed and the later reports
\* are processed as if it had never existed
C10_IncompleteTick ==
    [][(Releases /\ ~Has(OldestBucket, "all")) =>
          outcome' = "KeyError" /\ DropsIncompleteBucket]_vars

\* a bucket without "all" was released unreported, and a later bucket was reported
C10_Witness ==
    \E i \in DOMAIN released : \E j \in DOMAIN released :
        /\ i < j
        /\ ~HasRaplReport(released[i])
        /\ HasRaplReport(released[j])
        /\ outcome = "none"

\* the "all" report of a bucket lacks the rapl group or the reference event
IsMalformed(bucket) == Has(bucket, "all") /\ ~RaplOk(Get(bucket, "all"))

\* C11 as stated: when the "all" report of the released bucket lacks the rapl
\* group or the reference event, no report is sent for the tick, the error does
\* not escape handle, the models are unchanged and the later ticks are processed
\* as if the tick were absent
C11_MalformedRecovered ==
    [][(Releases /\ IsMalformed(OldestBucket)) =>
          outcome' = "none" /\ DropsIncompleteBucket]_vars

\* C11, amended: when the "all" report of the released bucket lacks the rapl group
\* or the reference event, a KeyError is raised out of handle; no report is sent
\* for the tick, the models are unchanged, the bucket is gone and the later ticks
\* are processed as if the tick were absent
C11_MalformedTick ==
    [][(Releases /\ IsMalformed(OldestBucket)) =>
          outcome' = "KeyError" /\ DropsIncompleteBucket]_vars

\* a malformed tick was released, then a later, whole tick was released and
\* reported
C11_Witness ==
    /\ Len(released) = 3
    /\ ~HasRaplReport(released[1])
    /\ ~HasRaplReport(released[2])
    /\ HasRaplReport(released[3])
    /\ \E i \in DOMAIN sent : sent[i].timestamp = released[3]
    /\ outcome = "none"

\* C12: when disable_dram_formula (resp. disable_cpu_formula) is set, no handler
\* of the DRAM (resp. CPU) scope is fed and no power report of that scope is sent
C12_ScopeDisabled ==
    /\ (disable_dram_formula /\ scope = "dram") => (seen = {} /\ sent = <<>>)
    /\ (disable_cpu_formula /\ scope = "cpu") => (seen = {} /\ sent = <<>>)
    /\ disable_dram_formula => \A i \in DOMAIN sent : sent[i].metadata.scope # "dram"
    /\ disable_cpu_formula => \A i \in DOMAIN sent : sent[i].metadata.scope # "cpu"

\* the model of the key as it was fitted on the first n samples of its history
FittedOn(key, n) ==
    Fit([NewModel EXCEPT !.history = SubSeq(formula[key].history, 1, n)], min_samples)

\* C13: every power report sent has a power >= 0: a prediction of the model that
\* is negative is sent as 0
C13_NonNegativePower ==
    \A i \in 1..Len(sent) : sent[i].power.num >= 0 /\ sent[i].power.den > 0

\* the third bucket was estimated by the model fitted on two samples, whose
\* prediction for it is negative, and its global and target reports carry 0
C13_Witness ==
    \E key \in DOMAIN formula :
        /\ Len(formula[key].history) = 3
        /\ Predict(FittedOn(key, 2), formula[key].history[3].x) < 0
        /\ \E i \in 1..Len(sent) :
               /\ sent[i].timestamp = 3
               /\ sent[i].target = "global"
               /\ sent[i].power = Whole(0)
        /\ \E i \in 1..Len(sent) :
               /\ sent[i].timestamp = 3
               /\ sent[i].target = "a"
               /\ sent[i].power = Whole(0)

\* the bucket has an "all" report that holds the reference event
HasReferenceEvent(bucket) == Has(bucket, "all") /\ RaplOk(Get(bucket, "all"))

\* C14: a released bucket whose "all" report holds the reference event gets exactly
\* one report of target "rapl", with the timestamp of the bucket, the sensor, scope
\* and socket of the handler and the name of the reference event as formula id;
\* the global report and the reports of the targets carry the hash of the model
\* selected for the bucket
C14_ReportIdentity ==
    [][(Releases /\ HasReferenceEvent(OldestBucket)) =>
          /\ Cardinality({i \in DOMAIN NewReports : NewReports[i].target = "rapl"}) = 1
          /\ \A i \in DOMAIN NewReports :
                 IF NewReports[i].target = "rapl"
                 THEN /\ NewReports[i].timestamp = Head(ticks).k
                      /\ NewReports[i].sensor = Sensor
                      /\ NewReports[i].metadata =
                             [scope |-> scope, socket |-> Socket, formula |-> RaplEvent]
                 ELSE /\ KeyOf(OldestBucket) \in DOMAIN formula
                      /\ NewReports[i].metadata.formula
                             = formula[KeyOf(OldestBucket)].hash
       ]_vars

\* a bucket was estimated: its RAPL, global and target reports were sent, and the
\* model was then fitted again, so that its hash is no longer the one they carry
C14_Witness ==
    \E i \in 1..Len(sent), j \in 1..Len(sent), k \in 1..Len(sent) :
        /\ sent[i].timestamp = sent[j].timestamp
        /\ sent[j].timestamp = sent[k].timestamp
        /\ sent[i].target = "rapl"
        /\ sent[i].metadata.formula = RaplEvent
        /\ sent[j].target = "global"
        /\ sent[k].target = "b"
        /\ sent[k].metadata.formula = sent[j].metadata.formula
        /\ \A key \in DOMAIN formula : formula[key].hash # sent[j].metadata.formula

\* C15: a call of handle that raises UnknowMessageTypeException leaves the tick
\* buffer and the models as they were and sends nothing; a call of handle for an
\* HWPCReport leaves the actor state as it was given
C15_UnknownMessage ==
    [][/\ outcome' = "UnknowMessageTypeException" =>
              ticks' = ticks /\ formula' = formula /\ sent' = sent
       /\ outcome' # "UnknowMessageTypeException" => state' = state
      ]_vars

\* a message of an unknown type was handled while buckets were buffered and
\* power reports had been sent
C15_Witness ==
    /\ outcome = "UnknowMessageTypeException"
    /\ ticks # <<>>
    /\ sent # <<>>
    /\ state = ActorState

\* the raw value of the reference event in the "all" report of a bucket
RawReference(bucket) == Get(bucket, "all").groups["rapl"][Socket][1].v[RaplEvent]

\* C16: the power of the RAPL report of a released bucket is the raw value of the
\* reference event times 2^-32, divided by the sampling interval in seconds
\* (sampling_interval is in ms), whatever the configured sampling interval
C16_RaplPassthrough ==
    [][(Releases /\ HasReferenceEvent(OldestBucket) /\ NewReports # <<>>) =>
          /\ NewReports[1].target = "rapl"
          /\ NewReports[1].power.num * sampling_interval
                 = ldexp(RawReference(OldestBucket), -RaplShift) * 1000
                   * NewReports[1].power.den
      ]_vars

\* the targets of the bucket partition the core events of its "all" report
Partitions(bucket) ==
    /\ Has(bucket, "all")
    /\ CoreOk(Get(bucket, "all"))
    /\ gen_core_events_group(Get(bucket, "all")) = FeaturesOf(bucket)

AddPower(p, q) == Fraction(p.num * q.den + q.num * p.den, p.den * q.den)

RECURSIVE SumPowers(_)
SumPowers(reports) ==
    IF reports = <<>> THEN Whole(0)
    ELSE AddPower(Head(reports).power, SumPowers(Tail(reports)))

\* C17: when a released bucket whose targets partition the core events of its
\* "all" report is estimated by a fitted model, the powers of the reports of the
\* targets add up to the power of the global report (exactly, in exact arithmetic)
C17_Apportionment ==
    [][(Releases /\ Partitions(OldestBucket) /\ Len(NewReports) >= 2) =>
          /\ NewReports[2].target = "global"
          /\ Len(NewReports) = 2 + Len(TargetsIn(OldestBucket))
          /\ SumPowers(SubSeq(NewReports, 3, Len(NewReports))) = NewReports[2].power
      ]_vars

\* a bucket was estimated at a power that is not 0 and its two targets got
\* unequal shares of it
C17_Witness ==
    \E j \in 1..Len(sent) :
        /\ j + 2 <= Len(sent)
        /\ sent[j].target = "global"
        /\ sent[j].power.num > 0
        /\ sent[j + 1].target = "a" /\ sent[j + 1].timestamp = sent[j].timestamp
        /\ sent[j + 2].target = "b" /\ sent[j + 2].timestamp = sent[j].timestamp
        /\ sent[j + 1].power # sent[j + 2].power
        /\ sent[j + 1].power.den > 1
        /\ AddPower(sent[j + 1].power, sent[j + 2].power) = sent[j].power

\* C18: after every handled report the buffer holds at most LookAhead buckets; one
\* report releases at most one bucket; a report of a timestamp that has a bucket
\* in the buffer releases nothing, sends nothing and changes no model; a buffer
\* that holds LookAhead buckets holds LookAhead buckets after every later report
C18_BoundedBuffer ==
    [][/\ Len(ticks') <= LookAhead
       /\ Len(released') <= Len(released) + 1
       /\ Len(ticks') >= Len(ticks)
       /\ created' = created =>
              released' = released /\ sent' = sent /\ formula' = formula
       /\ Len(ticks) = LookAhead => Len(ticks') = LookAhead
      ]_vars

\* the buffer is full, buckets were released, and the newest bucket got a second
\* report while the buffer was full
C18_Witness ==
    /\ Len(ticks) = LookAhead
    /\ Len(released) >= 2
    /\ Len(ticks[LookAhead].v) = 2
    /\ ticks[LookAhead].k = Max(seen)

\* the step handles a report of timestamp t whose bucket was released before: the
\* released bucket lacks this report, which opens a second bucket for t
ComesAfterRelease(t) ==
    /\ created' = Append(created, t)
    /\ \E i \in 1..Len(released) : released[i] = t

\* the index in `created` of the newest bucket of timestamp t
LastCreated(t) ==
    CHOOSE i \in 1..Len(created) :
        created[i] = t /\ \A j \in (i + 1)..Len(created) : created[j] # t

\* C19 as stated: a report of t is left out of the bucket released for t only if
\* it comes after the first report of the LookAhead-th distinct timestamp that
\* follows t (if every report of t comes before it, the released bucket holds
\* them all and no second bucket is made for t)
C19_BoundedDelay ==
    [][\A t \in 1..MaxDelayTs :
          ComesAfterRelease(t) => Cardinality({u \in seen : u > t}) >= LookAhead
      ]_vars

\* C19, amended: a report of t is left out of the bucket released for t only if it
\* comes after LookAhead buckets were created after the bucket of t, whatever
\* their timestamps: a late report of an older timestamp counts
C19_BoundedDelayByCreation ==
    [][\A t \in 1..MaxDelayTs :
          ComesAfterRelease(t) => Len(created) - LastCreated(t) >= LookAhead
      ]_vars

\* a second bucket was made for a timestamp whose bucket had been released, after
\* LookAhead buckets were created but before LookAhead greater timestamps came
C19_Witness ==
    \E t \in 1..MaxDelayTs, i \in 1..Len(created), j \in 1..Len(created) :
        /\ created[i] = t
        /\ created[j] = t
        /\ j - 1 - i >= LookAhead
        /\ \E k \in 1..Len(released) : released[k] = t
        /\ Cardinality({u \in seen : u > t}) < LookAhead

\* the keys of an ordered dict, in its order
Order(d) == [i \in DOMAIN d |-> d[i].k]

\* the step added a report of a new target at the end of the bucket at index i
AppendedTo(i) ==
    /\ Len(ticks'[i].v) = Len(ticks[i].v) + 1
    /\ SubSeq(ticks'[i].v, 1, Len(ticks[i].v)) = ticks[i].v

\* the step replaced one report of the bucket at index i by a report of the same
\* target and timestamp, the other reports of the bucket staying as and where
\* they were
ReplacedIn(i) ==
    /\ Order(ticks'[i].v) = Order(ticks[i].v)
    /\ \E p \in DOMAIN ticks[i].v :
           /\ \A q \in DOMAIN ticks[i].v \ {p} : ticks'[i].v[q] = ticks[i].v[q]
           /\ ticks'[i].v[p].v.target = ticks[i].v[p].k
           /\ ticks'[i].v[p].v.timestamp = ticks[i].k

\* C20: every bucket holds at most one report per target; a report stored into a
\* bucket of the buffer (no bucket is created) changes that bucket alone, where it
\* replaces the report of its target or, the target being new, comes last; the
\* other reports, the other buckets and the order of the buckets stay the same
C20_LastWriterWins ==
    [][/\ \A i \in DOMAIN ticks' : \A p, q \in DOMAIN ticks'[i].v :
              ticks'[i].v[p].k = ticks'[i].v[q].k => p = q
       /\ created' = created =>
              /\ Order(ticks') = Order(ticks)
              /\ \A i \in DOMAIN ticks :
                     \/ ticks'[i] = ticks[i]
                     \/ /\ \A j \in DOMAIN ticks \ {i} : ticks'[j] = ticks[j]
                        /\ AppendedTo(i) \/ ReplacedIn(i)
      ]_vars

\* a bucket that is not the newest holds an "all" report that replaced the one
\* the bucket was created with, still before its "a" report, and reports came
\* for buckets older than the newest one
C20_Witness ==
    \E i \in 1..(Len(ticks) - 1) :
        /\ Order(ticks[i].v) = <<"all", "a">>
        /\ ticks[i].v[1].v = Report(ticks[i].k, "all", 20, 20)
        /\ ticks[i].v[2].v = Report(ticks[i].k, "a", 20, 20)
        /\ late = MaxDelayed

\* the sample a model recorded last
LastSample(model) == model.history[Len(model.history)]

\* C21: the vector by which the model of a released bucket is selected, estimates
\* the system and is trained is the sum, event by event, of the core events of
\* the targets of the bucket other than "all", over the cpus of the socket, the
\* time_ events left out; the core events of "all" are no part of it, and it is
\* empty for a bucket that holds "all" alone
C21_FeatureVector ==
    [][(Releases /\ DecodeError(OldestBucket) = "none") =>
          /\ KeyOf(OldestBucket) \in DOMAIN formula'
          /\ \A key \in DOMAIN formula' \ {KeyOf(OldestBucket)} :
                 key \in DOMAIN formula /\ formula'[key] = formula[key]
          /\ formula'[KeyOf(OldestBucket)].history
                 # HistoryOf(formula, KeyOf(OldestBucket)) =>
                 LastSample(formula'[KeyOf(OldestBucket)]).x = FeaturesOf(OldestBucket)
          /\ Len(NewReports) >= 2 =>
                 NewReports[2].power =
                    Whole(ClampPower(Predict(formula[KeyOf(OldestBucket)],
                                             FeaturesOf(OldestBucket))))
          /\ TargetsIn(OldestBucket) = <<>> =>
                 /\ KeyOf(OldestBucket) = IdleKey
                 /\ DOMAIN FeaturesOf(OldestBucket) = {}
      ]_vars

\* models of several keys were selected: the idle one by a bucket that held "all"
\* alone, and one that was trained on the sum of two targets that differ and
\* then estimated a bucket at a power that is not 0
C21_Witness ==
    /\ IdleKey \in DOMAIN formula
    /\ Cardinality(DOMAIN formula) >= 2
    /\ \E key \in DOMAIN formula \ {IdleKey} :
          /\ formula[key].fitted
          /\ \E i \in DOMAIN formula[key].history :
                 formula[key].history[i].x[EvUnhalted] = 2 * (5 + 1)
          /\ \E j \in DOMAIN sent :
                 /\ sent[j].target = "global"
                 /\ sent[j].metadata.formula = formula[key].hash
                 /\ sent[j].power.num > 0

\* the cpu map of the pcu group of the "all" report of a bucket
PcuCpus(bucket) == Get(bucket, "all").groups["pcu"][Socket]

\* C22 as stated: the pcu events of a released bucket are those of the cpu of the
\* lexicographically smallest cpu id in its "all" report, the time_ events
\* removed, whatever the order of the cpu entries
C22_SmallestCpu ==
    [][(Releases /\ DecodeError(OldestBucket) = "none") =>
          last_pcu' = NoTime(PcuCpus(OldestBucket)[SmallestCpu(PcuCpus(OldestBucket))].v)
      ]_vars

\* C22, amended: the pcu events of a released bucket are those of the cpu whose
\* entry comes first in its "all" report, the time_ events removed
C22_FirstCpu ==
    [][(Releases /\ DecodeError(OldestBucket) = "none") =>
          /\ last_pcu' = NoTime(PcuCpus(OldestBucket)[1].v)
          /\ \A name \in DOMAIN last_pcu' : ~StartsWithTime(name)
      ]_vars

\* buckets were released, and the pcu events decoded last are those of cpu "1",
\* the first entry of an "all" report whose smallest cpu id is "0"
C22_Witness ==
    /\ Len(released) >= 2
    /\ last_pcu = NoTime(PcuEventsOf("1"))
    /\ last_pcu # NoTime(PcuEventsOf("0"))

\* the power reports the running handler has sent, in order
OwnReports == SelectSeq(sent, LAMBDA report : report.metadata.scope = scope)

\* the handler `before` (its ticks, formula and sent reports) after it took msg
SoloStep(before, msg) ==
    CHOOSE after \in
        {[ticks |-> result.ticks, formula |-> result.formula,
          reports |-> IF result.error = "none"
                      THEN before.reports \o result.reports
                      ELSE before.reports] :
            result \in {process_report(before.ticks, before.formula,
                                       min_samples, msg)}} : TRUE

RECURSIVE SoloRun(_)
\* a handler of the running handler's scope that takes the first n reports of
\* the stream with no other handler around: its ticks, its formula and the power
\* reports it sends
SoloRun(n) ==
    IF n = 0 THEN [ticks |-> <<>>, formula |-> <<>>, reports |-> <<>>]
    ELSE CHOOSE after \in
             {SoloStep(before, StreamAt(n)) : before \in {SoloRun(n - 1)}} : TRUE

\* the running handler is where it would be had it run alone on its input
SoloEquivalent ==
    \E solo \in {SoloRun(Consumed)} :
        /\ OwnReports = solo.reports
        /\ ticks = solo.ticks
        /\ formula = solo.formula

\* C23: a report handled by one handler leaves the ticks and the models of the
\* other handler as they were; a handler that gets the thread finds its ticks and
\* models as it left them; and the handler that takes a step has sent, in order,
\* the power reports it would have sent had it run alone on its input, however
\* the calls of the two handlers interleave (the thread may go to the other
\* handler in every state, so this is said of both handlers in every state)
C23_Independence ==
    [][/\ scope' = scope =>
              idle'.ticks = idle.ticks /\ idle'.formula = idle.formula
       /\ scope' # scope =>
              /\ ticks' = idle.ticks /\ formula' = idle.formula
              /\ idle'.ticks = ticks /\ idle'.formula = formula
       /\ SoloEquivalent
      ]_vars

\* the reports of the two handlers are interleaved in what the pusher got, both
\* handlers have a fitted model and sent the estimate of a bucket
C23_Witness ==
    /\ \E i, j, k \in DOMAIN sent :
          /\ i < j /\ j < k
          /\ sent[i].metadata.scope = scope
          /\ sent[j].metadata.scope = OtherScope
          /\ sent[k].metadata.scope = scope
    /\ \E i, j \in DOMAIN sent :
          /\ sent[i].target = "global" /\ sent[i].metadata.scope = "cpu"
          /\ sent[j].target = "global" /\ sent[j].metadata.scope = "dram"
    /\ idle.formula # formula

=============================================================================
